---------------------------- MODULE Spec2Model ----------------------------
(***************************************************************************)
(* Model of the Goldsky ingestion engine of oso_dagster                    *)
(* (warehouse/oso_dagster/factories/goldsky/assets.py): checkpoints, the   *)
(* per-worker heap queues, discovery, the Direct and the Parallel (Dask)   *)
(* loader, the pointer table, dedupe, merge and clean-up.                  *)
(*                                                                         *)
(* Strings are modelled by naturals that keep their order: a job_id is a   *)
(* natural (JobEmpty for "", JobZero for "0", larger numbers for UUIDs), a *)
(* worker name is a natural.                                               *)
(***************************************************************************)
EXTENDS Naturals, Integers, Sequences, FiniteSets, Bags, TLC

---------------------------------------------------------------------------
(* Bounds and value domains                                                *)

\* Number of runs of the orchestrator in one behaviour.
MaxRuns == 3
\* Largest source listing.
MaxBlobs == 3
\* Failures (failed calls, killed runs) met in one behaviour.
MaxFaults == 1
\* Longest operation history of the stand-alone queue.
MaxOps == 6
\* Longest backfill label, in characters.
MaxLabel == 4
\* Attempts of the Parallel loader's retry loop taken on its own.
MaxAttempts == 7
\* Largest timestamp and worker_checkpoint of the checkpoints compared.
MaxField == 1
\* Most fields of a sampled Parquet schema.
MaxFields == 2

\* job_id "" of the default worker status, GoldskyCheckpoint("", 0, 0).
JobEmpty == 0
\* job_id "0" of the default range start, GoldskyCheckpoint("0", 0, 0).
JobZero == 1
\* retries of bq_retry.
BqRetries == 5
\* attempts of DirectGoldskyWorker.update_pointer_table.
PointerAttempts == 3
\* seconds after last_restart within which dask_load_worker_tables counts
\* its retries.
RestartWindow == 600
\* the `retries > 3` of dask_load_worker_tables.
ClusterRetries == 3
\* max_objects_to_load of the load_queues call of clean_up.
CleanUpMaxObjects == 100000

Workers == {0, 1}
\* Upstream pipeline incarnations <<timestamp, job_id>>: the later timestamp
\* carries the smaller job_id, so that tuple order and timestamp-first order
\* can be told apart from any other field order.
Incarnations == {<<1, 3>>, <<2, 2>>}
WorkerCheckpoints == {1, 2}

None == [none |-> TRUE]

---------------------------------------------------------------------------
(* GoldskyCheckpoint                                                       *)

GoldskyCheckpoint(job_id, timestamp, worker_checkpoint) ==
    [job_id |-> job_id, timestamp |-> timestamp,
     worker_checkpoint |-> worker_checkpoint]

CkEq(self, other) ==
    /\ self.timestamp = other.timestamp
    /\ self.job_id = other.job_id
    /\ self.worker_checkpoint = other.worker_checkpoint

\* An order that reads the job_id before the timestamp.
CkLtJobFirst(self, other) ==
    IF self.job_id < other.job_id THEN TRUE
    ELSE IF self.job_id # other.job_id THEN FALSE
    ELSE IF self.timestamp < other.timestamp THEN TRUE
    ELSE IF self.timestamp # other.timestamp THEN FALSE
    ELSE self.worker_checkpoint < other.worker_checkpoint

CkLt(self, other) ==
    IF self.timestamp < other.timestamp THEN TRUE
    ELSE IF self.timestamp # other.timestamp THEN FALSE
    ELSE IF self.job_id < other.job_id THEN TRUE
    ELSE IF self.job_id # other.job_id THEN FALSE
    ELSE self.worker_checkpoint < other.worker_checkpoint

CkLe(self, other) == IF CkEq(self, other) THEN TRUE ELSE CkLt(self, other)

CkGt(self, other) == IF CkEq(self, other) THEN FALSE ELSE CkLt(other, self)

CkGe(self, other) == IF CkEq(self, other) THEN TRUE ELSE CkGt(self, other)

\* GoldskyCheckpointRange: a record [start, end], end = None when unbounded.
GoldskyCheckpointRange(start, end) ==
    [start |-> IF start = None THEN GoldskyCheckpoint(JobZero, 0, 0) ELSE start,
     end |-> end]

\* A range that takes its end in.
InRangeClosed(range, checkpoint) ==
    IF CkGe(checkpoint, range.start)
    THEN IF range.end = None THEN TRUE ELSE CkLe(checkpoint, range.end)
    ELSE FALSE

InRange(range, checkpoint) ==
    IF CkGe(checkpoint, range.start)
    THEN IF range.end = None THEN TRUE ELSE CkLt(checkpoint, range.end)
    ELSE FALSE

---------------------------------------------------------------------------
(* Blobs and queue items.  A matching blob name                            *)
(* {timestamp}-{job_id}-{worker}-{checkpoint}.parquet is the record of its *)
(* four groups; a GoldskyQueueItem is the blob it was parsed from.         *)

Blob(timestamp, job_id, worker, checkpoint) ==
    [timestamp |-> timestamp, job_id |-> job_id, worker |-> worker,
     checkpoint |-> checkpoint]

\* The blobs a listing can hold: worker 0 has blobs of both incarnations,
\* worker 1 of the first one.
AllBlobs ==
    {b \in {Blob(i[1], i[2], w, c) : i \in Incarnations, w \in Workers,
                                     c \in WorkerCheckpoints} :
        \/ b.worker = 0 /\ (b.timestamp = 1 \/ b.checkpoint = 1)
        \/ b.worker = 1 /\ b.timestamp = 1}

\* checkpoint = GoldskyCheckpoint(job_id, timestamp, worker_checkpoint)
ItemCheckpoint(item) ==
    GoldskyCheckpoint(item.job_id, item.timestamp, item.checkpoint)

\* The order of the worker_checkpoint field alone.
ItemLtByWorkerCheckpoint(self, other) == self.checkpoint < other.checkpoint

\* GoldskyQueueItem.__lt__
ItemLt(self, other) == CkLt(ItemCheckpoint(self), ItemCheckpoint(other))

---------------------------------------------------------------------------
(* heapq on a list, positions counted from 0 as in Python (heap[p] is the  *)
(* TLA+ element p + 1).                                                    *)

At(heap, pos) == heap[pos + 1]
Put(heap, pos, x) == [heap EXCEPT ![pos + 1] = x]

RECURSIVE SiftDown(_, _, _, _)
\* heapq._siftdown with newitem taken out of heap[pos]
SiftDown(heap, startpos, pos, newitem) ==
    IF pos > startpos
    THEN LET parentpos == (pos - 1) \div 2
             parent == At(heap, parentpos)
         IN IF ItemLt(newitem, parent)
            THEN SiftDown(Put(heap, pos, parent), startpos, parentpos, newitem)
            ELSE Put(heap, pos, newitem)
    ELSE Put(heap, pos, newitem)

RECURSIVE SiftUpLoop(_, _, _)
\* the loop of heapq._siftup: bubble the smaller child up until a leaf;
\* the result is <<heap, pos>>
SiftUpLoop(heap, pos, endpos) ==
    LET childpos == 2 * pos + 1
        rightpos == childpos + 1
    IN IF childpos < endpos
       THEN LET c == IF rightpos < endpos
                        /\ ~ItemLt(At(heap, childpos), At(heap, rightpos))
                     THEN rightpos ELSE childpos
            IN SiftUpLoop(Put(heap, pos, At(heap, c)), c, endpos)
       ELSE <<heap, pos>>

SiftUp(heap, pos) ==
    LET newitem == At(heap, pos)
        r == SiftUpLoop(heap, pos, Len(heap))
    IN SiftDown(r[1], pos, r[2], newitem)

Heappush(heap, item) ==
    LET h == Append(heap, item) IN SiftDown(h, 0, Len(h) - 1, At(h, Len(h) - 1))

\* heapq.heappop on a non-empty list: <<returned item, heap after>>
Heappop(heap) ==
    LET lastelt == heap[Len(heap)]
        rest == SubSeq(heap, 1, Len(heap) - 1)
    IN IF rest # <<>>
       THEN <<rest[1], SiftUp(Put(rest, 0, lastelt), 0)>>
       ELSE <<lastelt, rest>>

---------------------------------------------------------------------------
(* GoldskyQueue: [queue, dequeues, max_size]                               *)

GoldskyQueue(max_size) == [queue |-> <<>>, dequeues |-> 0, max_size |-> max_size]

QEnqueue(q, item) == [q EXCEPT !.queue = Heappush(q.queue, item)]

\* A dequeue that pops whatever the heap holds.
QDequeueUncapped(q) ==
    IF q.queue = <<>> THEN <<None, q>>
    ELSE LET r == Heappop(q.queue)
         IN <<r[1], [q EXCEPT !.queue = r[2], !.dequeues = q.dequeues + 1]>>

\* dequeue: <<item or None, queue after>>
QDequeue(q) ==
    IF q.dequeues > q.max_size - 1 THEN <<None, q>>
    ELSE IF q.queue = <<>> THEN <<None, q>>
    ELSE LET r == Heappop(q.queue)
         IN <<r[1], [q EXCEPT !.queue = r[2], !.dequeues = q.dequeues + 1]>>

QLen(q) == Len(q.queue)

QEmpty(q) == [q EXCEPT !.queue = <<>>]


---------------------------------------------------------------------------
(* GoldskyQueues: [keys, queues, max_size]; keys lists the workers that    *)
(* have a queue, in the order the dict got them.                           *)

GoldskyQueues(max_size) ==
    [keys |-> <<>>, queues |-> [w \in {} |-> GoldskyQueue(max_size)],
     max_size |-> max_size]

HasQueue(qs, worker) == worker \in DOMAIN qs.queues

QsEnqueue(qs, worker, item) ==
    LET queue == IF HasQueue(qs, worker) THEN qs.queues[worker]
                 ELSE GoldskyQueue(qs.max_size)
        queue2 == QEnqueue(queue, item)
    IN [qs EXCEPT
          !.keys = IF HasQueue(qs, worker) THEN @ ELSE Append(@, worker),
          !.queues = [w \in DOMAIN @ \cup {worker} |->
                        IF w = worker THEN queue2 ELSE @[w]]]

---------------------------------------------------------------------------
(* Discovery                                                               *)

\* Order of object names, as list_blobs returns them (names of equal field
\* widths: the order of the four groups read left to right).
NameLt(a, b) ==
    \/ a.timestamp < b.timestamp
    \/ a.timestamp = b.timestamp /\ a.job_id < b.job_id
    \/ a.timestamp = b.timestamp /\ a.job_id = b.job_id /\ a.worker < b.worker
    \/ a.timestamp = b.timestamp /\ a.job_id = b.job_id /\ a.worker = b.worker
       /\ a.checkpoint < b.checkpoint

RECURSIVE ListBlobs(_)
\* _uncached_blobs_loader: the matching blobs of the bucket, in name order
ListBlobs(S) ==
    IF S = {} THEN <<>>
    ELSE LET first == CHOOSE b \in S : \A c \in S \ {b} : NameLt(b, c)
         IN <<first>> \o ListBlobs(S \ {first})

\* The default of worker_status.get(worker, GoldskyCheckpoint("", 0, 0))
DefaultStatus == GoldskyCheckpoint(JobEmpty, 0, 0)

\* A filter that leaves the worker's status out.
SkipsRangeOnly(match, worker_status, checkpoint_range) ==
    checkpoint_range # None /\ ~InRange(checkpoint_range, ItemCheckpoint(match))

\* Whether load_queues skips the blob (either `continue` of its loop).
Skips(match, worker_status, checkpoint_range) ==
    LET checkpoint == ItemCheckpoint(match)
    IN \/ checkpoint_range # None /\ ~InRange(checkpoint_range, checkpoint)
       \/ /\ DOMAIN worker_status # {}
          /\ LET worker_checkpoint ==
                     IF match.worker \in DOMAIN worker_status
                     THEN worker_status[match.worker] ELSE DefaultStatus
             IN CkGe(worker_checkpoint, checkpoint)

RECURSIVE LoadQueuesLoop(_, _, _, _)
LoadQueuesLoop(blobs, qs, worker_status, checkpoint_range) ==
    IF blobs = <<>> THEN qs
    ELSE LET match == Head(blobs)
         IN LoadQueuesLoop(
              Tail(blobs),
              IF Skips(match, worker_status, checkpoint_range) THEN qs
              ELSE QsEnqueue(qs, match.worker, match),
              worker_status, checkpoint_range)

\* load_queues with a cap of 0 replaced by a cap no listing reaches.
LoadQueuesDefaultCap(blobs, worker_status, max_objects_to_load, checkpoint_range) ==
    LoadQueuesLoop(blobs,
                   GoldskyQueues(IF max_objects_to_load = 0 THEN MaxBlobs
                                 ELSE max_objects_to_load),
                   worker_status, checkpoint_range)

\* load_queues with a worker_status dict (load_queues_to_process)
LoadQueues(blobs, worker_status, max_objects_to_load, checkpoint_range) ==
    LoadQueuesLoop(blobs, GoldskyQueues(max_objects_to_load), worker_status,
                   checkpoint_range)


\* GoldskyQueues.peek: [raise, item, qs].  It raises when the re-insert of
\* a None item fails in heappush (None has no order with the items of a
\* non-empty heap).
QsPeek(qs) ==
    IF Len(qs.keys) > 0
    THEN LET w == qs.keys[1]
             r == QDequeue(qs.queues[w])
         IN IF r[1] = None /\ r[2].queue # <<>>
            THEN [raise |-> TRUE, item |-> None, qs |-> qs]
            ELSE [raise |-> FALSE, item |-> r[1],
                  qs |-> [qs EXCEPT !.queues[w] = QEnqueue(r[2], r[1])]]
    ELSE [raise |-> FALSE, item |-> None, qs |-> qs]

---------------------------------------------------------------------------
(* State                                                                   *)

VARIABLES
    listing,        \* the matching blobs of the source bucket
    cfg,            \* GoldskyConfig: dask_is_enabled, schema_overrides (non-empty
                    \* or not), pointer_size, max_objects_to_load, the buckets
    runs,           \* runs started so far
    phase,          \* where the orchestrator of the current run is
    outcome,        \* how the last finished run ended
    pointerExists,  \* the pointer table exists
    pointer,        \* the pointer table: a bag of rows
    raw,            \* raw_{worker}: [exists, rows], rows a bag of blobs
    deduped,        \* deduped_{worker}: [exists, rows], rows a set of blobs
    dest,           \* the destination table: a set of blobs
    staged,         \* per worker: the files table_{checkpoint}.parquet under
                    \* the run's preload prefix, each the blob it was copied from
    retries,        \* `retries` of dask_load_worker_tables
    workers,        \* the worker names of the run, in queue order
    wk,             \* per worker name: the loader's local state
    loaded,         \* history: the bag of blobs bulk-loaded so far
    faults,         \* history: the failures met so far
    lab             \* state of the stand-alone specifications

vars == <<listing, cfg, runs, phase, outcome, pointerExists, pointer, raw,
          deduped, dest, staged, retries, workers, wk, loaded, faults, lab>>

durable == <<pointerExists, pointer, raw, deduped, dest, loaded>>

PointerSizes == {1, 2}
MaxObjects == {0, 2, 3}

\* The Parallel loader never reads schema_overrides, and the Direct loader
\* stages nothing in a bucket.
Configs ==
    [dask_is_enabled : {FALSE}, schema_overrides : BOOLEAN,
     pointer_size : PointerSizes, max_objects_to_load : MaxObjects,
     source_bucket_name : {"source"}, destination_bucket_name : {"destination"}]
    \cup
    [dask_is_enabled : {TRUE}, schema_overrides : {FALSE},
     pointer_size : PointerSizes, max_objects_to_load : MaxObjects,
     source_bucket_name : {"source"},
     destination_bucket_name : {"source", "destination"}]

\* A table that does not exist.
NoTable == [exists |-> FALSE, rows |-> EmptyBag]
NoDeduped == [exists |-> FALSE, rows |-> {}]

\* client.load_table_from_uri(files, table): the table is created when it
\* is missing and the rows of the files are appended.
LoadTableFromUri(table, files) ==
    [exists |-> TRUE, rows |-> table.rows (+) SetToBag(files)]

\* What the attempts of a retried call can meet: n failures, then `last`.
Scripts(attempts, failure, lasts) ==
    {[i \in 1..attempts |-> IF i <= n THEN failure ELSE last] :
        n \in 0..attempts, last \in lasts}

\* The failures a behaviour may still meet are bounded by MaxFaults.
Clean(outs) == \A i \in DOMAIN outs : outs[i] = "ok"
MayFail == faults < MaxFaults
Fault(failed) == faults' = IF failed THEN faults + 1 ELSE faults

NoWorker ==
    [pc |-> "none", q |-> GoldskyQueue(0), item |-> None, to_load |-> <<>>,
     latest |-> None, commit_ck |-> None, trailing |-> FALSE, seen |-> {},
     loadres |-> "unset", tmp |-> EmptyBag, err |-> FALSE,
     ptrres |-> "unset", attempts |-> 0, last_commit |-> None,
     loads |-> 0, commits |-> 0]

---------------------------------------------------------------------------
(* Pointer table                                                           *)

\* The row with the timestamp and checkpoint columns exchanged.
PointerRowSwapped(worker, new_checkpoint) ==
    [worker |-> worker, job_id |-> new_checkpoint.job_id,
     timestamp |-> new_checkpoint.worker_checkpoint,
     checkpoint |-> new_checkpoint.timestamp]

\* VALUES ('{worker}', '{job_id}', {timestamp}, {worker_checkpoint})
PointerRow(worker, new_checkpoint) ==
    [worker |-> worker, job_id |-> new_checkpoint.job_id,
     timestamp |-> new_checkpoint.timestamp,
     checkpoint |-> new_checkpoint.worker_checkpoint]

\* GoldskyCheckpoint(job_id=row.job_id, timestamp=row.timestamp,
\*                   worker_checkpoint=row.checkpoint)
RowCheckpoint(row) == GoldskyCheckpoint(row.job_id, row.timestamp, row.checkpoint)

RowsOf(table, worker) == {r \in BagToSet(table) : r.worker = worker}

\* DELETE FROM pointer WHERE worker = '{worker}'
DeleteWorker(table, worker) ==
    [r \in {x \in BagToSet(table) : x.worker # worker} |-> table[r]]

\* INSERT INTO pointer VALUES (...)
InsertRow(table, row) == table (+) SetToBag({row})

\* The transaction of update_pointer_table: DELETE then INSERT
DeleteInsert(table, worker, new_checkpoint) ==
    InsertRow(DeleteWorker(table, worker), PointerRow(worker, new_checkpoint))

\* get_worker_status: the dicts the SELECT can give.  Rows come in no
\* stated order and a later row of a worker replaces an earlier one.
WorkerStatuses(exists, table) ==
    IF ~exists THEN {[w \in {} |-> DefaultStatus]}
    ELSE LET ws == {r.worker : r \in BagToSet(table)}
         IN {[w \in ws |-> RowCheckpoint(f[w])] :
                f \in {g \in [ws -> BagToSet(table)] :
                          \A w \in ws : g[w].worker = w}}

---------------------------------------------------------------------------
(* bq_retry and the retry of update_pointer_table                          *)

RECURSIVE BqRetryFrom(_, _)
\* bq_retry from attempt i on, outs[i] being what attempt i meets: "ok",
\* "server" (InternalServerError) or "client" (ClientError).  The result is
\* "ok" (f's result returned), "raise", or "none" (the loop ran out and the
\* function returned None).
BqRetryFrom(outs, i) ==
    IF i > BqRetries THEN "none"
    ELSE IF outs[i] = "ok" THEN "ok"
    ELSE IF outs[i] = "server" THEN BqRetryFrom(outs, i + 1)
    ELSE "raise"

BqRetry(outs) == BqRetryFrom(outs, 1)

RECURSIVE BqRetryCallsFrom(_, _)
\* The calls of f that bq_retry makes from attempt i on, those before
\* included.
BqRetryCallsFrom(outs, i) ==
    IF i > BqRetries THEN BqRetries
    ELSE IF outs[i] = "server" THEN BqRetryCallsFrom(outs, i + 1)
    ELSE i

BqRetryCalls(outs) == BqRetryCallsFrom(outs, 1)

RECURSIVE PointerRetryFrom(_, _)
\* the loop of update_pointer_table: <<"ok" or "none", attempts made>>
PointerRetryFrom(outs, i) ==
    IF i > PointerAttempts THEN <<"none", i - 1>>
    ELSE IF outs[i] = "ok" THEN <<"ok", i>>
    ELSE PointerRetryFrom(outs, i + 1)

PointerRetry(outs) == PointerRetryFrom(outs, 1)


---------------------------------------------------------------------------
(* DirectGoldskyWorker.run_load_bigquery_load                              *)

RECURSIVE DirectLoopNoFlush(_)
\* The loop without the commit of a trailing batch.
DirectLoopNoFlush(st) ==
    IF st.item = None THEN [st EXCEPT !.pc = "done"]
    ELSE LET to_load == Append(st.to_load, st.item)
             seen == st.seen \cup {st.item}
         IN IF Len(to_load) >= cfg.pointer_size
            THEN [st EXCEPT !.pc = "load", !.to_load = to_load, !.seen = seen,
                            !.commit_ck = ItemCheckpoint(st.item),
                            !.trailing = FALSE]
            ELSE LET r == QDequeue(st.q)
                 IN DirectLoopNoFlush([st EXCEPT !.to_load = to_load,
                                                 !.seen = seen,
                                                 !.latest = ItemCheckpoint(st.item),
                                                 !.item = r[1], !.q = r[2]])

RECURSIVE DirectLoop(_)
\* The loop from `while item is not None` up to the next commit_pointer
\* call (pc = "load") or to the end of the function (pc = "done").
DirectLoop(st) ==
    IF st.item = None
    THEN IF Len(st.to_load) > 0
         THEN [st EXCEPT !.pc = "load", !.commit_ck = st.latest, !.trailing = TRUE]
         ELSE [st EXCEPT !.pc = "done"]
    ELSE LET to_load == Append(st.to_load, st.item)
             seen == st.seen \cup {st.item}
         IN IF Len(to_load) >= cfg.pointer_size
            THEN [st EXCEPT !.pc = "load", !.to_load = to_load, !.seen = seen,
                            !.commit_ck = ItemCheckpoint(st.item),
                            !.trailing = FALSE]
            ELSE LET r == QDequeue(st.q)
                 IN DirectLoop([st EXCEPT !.to_load = to_load, !.seen = seen,
                                          !.latest = ItemCheckpoint(st.item),
                                          !.item = r[1], !.q = r[2]])

\* After a commit_pointer call returned: the rest of the loop body and on.
DirectAfterCommit(st) ==
    IF st.trailing THEN [st EXCEPT !.pc = "done", !.to_load = <<>>]
    ELSE LET r == QDequeue(st.q)
         IN DirectLoop([st EXCEPT !.to_load = <<>>,
                                  !.latest = ItemCheckpoint(st.item),
                                  !.item = r[1], !.q = r[2]])

\* The function's first lines: item = dequeue(); latest = item.checkpoint
\* (an AttributeError when the dequeue gave None).
DirectStart(q) ==
    LET r == QDequeue(q)
        st == [NoWorker EXCEPT !.q = r[2], !.item = r[1]]
    IN IF r[1] = None THEN [st EXCEPT !.pc = "error"]
       ELSE DirectLoop([st EXCEPT !.latest = ItemCheckpoint(r[1])])

---------------------------------------------------------------------------
(* Initial state                                                           *)

Listings == {S \in SUBSET AllBlobs : Cardinality(S) <= MaxBlobs}

\* Nothing has run yet: no table, no staged file, no worker.
Fresh ==
    /\ runs = 0
    /\ phase = "idle"
    /\ outcome = "none"
    /\ pointerExists = FALSE
    /\ pointer = EmptyBag
    /\ raw = [w \in Workers |-> NoTable]
    /\ deduped = [w \in Workers |-> NoDeduped]
    /\ dest = {}
    /\ staged = [w \in Workers |-> {}]
    /\ retries = 0
    /\ workers = <<>>
    /\ wk = [w \in Workers |-> NoWorker]
    /\ loaded = EmptyBag
    /\ faults = 0

MainInit ==
    /\ listing \in Listings
    /\ cfg \in Configs
    /\ Fresh

Init == MainInit /\ lab = None

---------------------------------------------------------------------------
(* The orchestrator: GoldskyAsset.materialize                              *)

Range(seq) == {seq[i] : i \in DOMAIN seq}

\* materialize_asset: a new GoldskyAsset; ensure_datasets
StartRun ==
    /\ phase = "idle"
    /\ runs < MaxRuns
    /\ runs' = runs + 1
    /\ phase' = "ensure_pointer"
    /\ outcome' = "none"
    /\ staged' = [w \in Workers |-> {}]
    /\ retries' = 0
    /\ workers' = <<>>
    /\ wk' = [w \in Workers |-> NoWorker]
    /\ UNCHANGED <<listing, cfg, durable, faults, lab>>

\* ensure_pointer_table
EnsurePointer ==
    /\ phase = "ensure_pointer"
    /\ pointerExists' = TRUE
    /\ phase' = "discover"
    /\ UNCHANGED <<listing, cfg, runs, outcome, pointer, raw, deduped, dest,
                   workers, wk, loaded, faults, staged, retries, lab>>

\* direct_load_worker_tables(context, checkpoint_range) up to the start of
\* the workers: load_queues_to_process, load_schema, one DirectGoldskyWorker
\* per queue
DirectLoadWorkerTables(checkpoint_range) ==
    /\ phase = "discover"
    /\ ~cfg.dask_is_enabled
    /\ \E worker_status \in WorkerStatuses(pointerExists, pointer) :
         LET queues == LoadQueues(ListBlobs(listing), worker_status,
                                  cfg.max_objects_to_load, checkpoint_range)
             peek == QsPeek(queues)
             schema_fails == cfg.schema_overrides
                             /\ (peek.raise \/ peek.item = None)
             qs == IF cfg.schema_overrides THEN peek.qs ELSE queues
         IN IF schema_fails
            THEN /\ phase' = "failed"
                 /\ UNCHANGED <<workers, wk>>
            ELSE /\ phase' = "load"
                 /\ workers' = qs.keys
                 /\ wk' = [w \in Workers |->
                             IF HasQueue(qs, w) THEN DirectStart(qs.queues[w])
                             ELSE NoWorker]
    /\ UNCHANGED <<listing, cfg, runs, outcome, durable, faults, staged, retries, lab>>

\* The run of generated_asset: materialize_asset without a checkpoint_range
DirectDiscover == DirectLoadWorkerTables(None)

\* commit_pointer, first half: bq_retry(load_retry)
DirectLoad(w) ==
    /\ phase \in {"load", "failed"}
    /\ ~cfg.dask_is_enabled
    /\ wk[w].pc = "load"
    /\ \E outs \in Scripts(BqRetries, "server", {"ok", "client"}) :
         LET res == BqRetry(outs)
             files == Range(wk[w].to_load)
         IN /\ Clean(outs) \/ MayFail
            /\ Fault(~Clean(outs))
            /\ wk' = [wk EXCEPT ![w].loadres = res,
                                ![w].loads = @ + 1,
                                ![w].pc = IF res = "raise" THEN "error" ELSE "ptr"]
            /\ IF res = "ok"
               THEN /\ raw' = [raw EXCEPT ![w] = LoadTableFromUri(@, files)]
                    /\ loaded' = loaded (+) SetToBag(files)
               ELSE UNCHANGED <<raw, loaded>>
    /\ UNCHANGED <<listing, cfg, runs, phase, outcome, pointerExists, pointer,
                   deduped, dest, workers, staged, retries, lab>>

\* commit_pointer, second half: update_pointer_table, and the loop up to
\* the next commit_pointer
DirectPointer(w) ==
    /\ phase \in {"load", "failed"}
    /\ ~cfg.dask_is_enabled
    /\ wk[w].pc = "ptr"
    /\ \E outs \in Scripts(PointerAttempts, "fail", {"ok"}) :
         LET res == PointerRetry(outs)
             st == [wk[w] EXCEPT !.ptrres = res[1], !.attempts = res[2],
                                 !.commits = @ + 1,
                                 !.last_commit = wk[w].commit_ck]
         IN /\ Clean(outs) \/ MayFail
            /\ Fault(~Clean(outs))
            /\ pointer' = IF res[1] = "ok"
                          THEN DeleteInsert(pointer, w, wk[w].commit_ck)
                          ELSE pointer
            /\ wk' = [wk EXCEPT ![w] = DirectAfterCommit(st)]
    /\ UNCHANGED <<listing, cfg, runs, phase, outcome, pointerExists, raw,
                   deduped, dest, workers, loaded, staged, retries, lab>>


\* load_worker_tables with dask_is_enabled: the call
\* self.dask_load_worker_tables(loop, context) gives two of the three
\* arguments the function asks for, a TypeError that leaves materialize.
LoadWorkerTablesDask ==
    /\ phase = "discover"
    /\ cfg.dask_is_enabled
    /\ phase' = "failed"
    /\ UNCHANGED <<listing, cfg, runs, outcome, durable, staged, retries,
                   workers, wk, faults, lab>>

---------------------------------------------------------------------------
(* The Parallel loader, as the bodies of its functions read.  The program  *)
(* cannot enter them: load_worker_tables calls dask_load_worker_tables     *)
(* without checkpoint_range, and DaskGoldskyWorker.__init__ hands          *)
(* GoldskyWorker.__init__ eight of its nine arguments.  ParallelSpec runs  *)
(* them with both calls bound as the callees' signatures ask.              *)
(* to_load holds the items of in_flight.                                   *)

RECURSIVE DaskLoop(_)
\* process_all_files from `while item is not None` up to the next wait for
\* the tasks in flight (pc = "await") or to the end (pc = "finally").
DaskLoop(st) ==
    IF st.item = None
    THEN IF Len(st.to_load) > 0
         THEN [st EXCEPT !.pc = "await", !.commit_ck = st.latest, !.trailing = TRUE]
         ELSE [st EXCEPT !.pc = "finally"]
    ELSE LET in_flight == Append(st.to_load, st.item)
             seen == st.seen \cup {st.item}
         IN IF Len(in_flight) >= cfg.pointer_size
            THEN [st EXCEPT !.pc = "await", !.to_load = in_flight, !.seen = seen,
                            !.commit_ck = ItemCheckpoint(st.item),
                            !.trailing = FALSE]
            ELSE LET r == QDequeue(st.q)
                 IN DaskLoop([st EXCEPT !.to_load = in_flight, !.seen = seen,
                                        !.latest = ItemCheckpoint(st.item),
                                        !.item = r[1], !.q = r[2]])

\* After update_pointer_table returned.
DaskAfterCommit(st) ==
    IF st.trailing THEN [st EXCEPT !.pc = "finally", !.to_load = <<>>]
    ELSE LET r == QDequeue(st.q)
         IN DaskLoop([st EXCEPT !.to_load = <<>>,
                                !.latest = ItemCheckpoint(st.item),
                                !.item = r[1], !.q = r[2]])

\* item = dequeue(); latest_checkpoint = item.checkpoint, inside the try of
\* process
DaskStart(q) ==
    LET r == QDequeue(q)
        st == [NoWorker EXCEPT !.q = r[2], !.item = r[1]]
    IN IF r[1] = None THEN [st EXCEPT !.pc = "finally", !.err = TRUE]
       ELSE DaskLoop([st EXCEPT !.latest = ItemCheckpoint(r[1])])

\* process_goldsky_file for the items of `done`: each writes
\* table_{worker_checkpoint}.parquet under the worker's prefix, a later
\* write of the same name replacing an earlier one.  The sets of files the
\* prefix can hold afterwards.
Stagings(old, done) ==
    {(old \ {f \in old : \E b \in W : b.checkpoint = f.checkpoint}) \cup W :
        W \in {X \in SUBSET done :
                 /\ \A b \in done : \E x \in X : x.checkpoint = b.checkpoint
                 /\ \A x, y \in X : x.checkpoint = y.checkpoint => x = y}}

\* The worker's coroutine and threads after something raised: while the
\* loaders are awaited the exception reaches `finally`; once the run has
\* left the load the coroutine is not resumed.
Raised(st) ==
    IF phase = "load"
    THEN [st EXCEPT !.pc = "finally", !.err = TRUE, !.last_commit = None]
    ELSE [st EXCEPT !.pc = "stopped", !.err = TRUE, !.last_commit = None]

Returned(st) ==
    IF phase = "load" THEN DaskAfterCommit(st) ELSE [st EXCEPT !.pc = "stopped"]

\* A wait that goes on to the commit with any part of the tasks done.
DaskAwaitPartial(w) ==
    /\ phase = "load"
    /\ cfg.dask_is_enabled
    /\ wk[w].pc = "await"
    /\ \E done \in SUBSET Range(wk[w].to_load) :
          \E S \in Stagings(staged[w], done) :
             staged' = [staged EXCEPT ![w] = S]
    /\ wk' = [wk EXCEPT ![w].pc = "commit"]
    /\ UNCHANGED <<listing, cfg, runs, phase, outcome, durable, retries,
                   workers, faults, lab>>

\* `for coro in asyncio.as_completed(in_flight): await coro`
DaskAwait(w) ==
    /\ phase = "load"
    /\ cfg.dask_is_enabled
    /\ wk[w].pc = "await"
    /\ \/ /\ \E S \in Stagings(staged[w], Range(wk[w].to_load)) :
               staged' = [staged EXCEPT ![w] = S]
          /\ wk' = [wk EXCEPT ![w].pc = "commit"]
          /\ UNCHANGED faults
       \/ /\ MayFail
          /\ Fault(TRUE)
          /\ \E done \in SUBSET Range(wk[w].to_load) \ {Range(wk[w].to_load)} :
               \E S \in Stagings(staged[w], done) :
                  staged' = [staged EXCEPT ![w] = S]
          /\ wk' = [wk EXCEPT ![w] = Raised(@)]
    /\ UNCHANGED <<listing, cfg, runs, phase, outcome, durable, retries,
                   workers, lab>>

\* blocking_update_pointer_table up to its LOAD DATA statement: get_table,
\* then LOAD DATA OVERWRITE of the wildcard into raw_{worker}_{job_id} (the
\* table exists) or into raw_{worker} (it does not)
DaskLoadData(w) ==
    /\ phase = "load"
    /\ cfg.dask_is_enabled
    /\ wk[w].pc = "commit"
    /\ \/ /\ raw[w].exists
          /\ wk' = [wk EXCEPT ![w].pc = "tx", ![w].tmp = SetToBag(staged[w])]
          /\ UNCHANGED <<raw, loaded, faults>>
       \/ /\ ~raw[w].exists
          /\ raw' = [raw EXCEPT ![w] = [exists |-> TRUE,
                                         rows |-> SetToBag(staged[w])]]
          /\ loaded' = loaded (+) SetToBag(staged[w])
          /\ wk' = [wk EXCEPT ![w].pc = "insert"]
          /\ UNCHANGED faults
       \/ /\ MayFail
          /\ Fault(TRUE)
          /\ wk' = [wk EXCEPT ![w] = Raised(@)]
          /\ UNCHANGED <<raw, loaded>>
    /\ UNCHANGED <<listing, cfg, runs, phase, outcome, pointerExists, pointer,
                   deduped, dest, staged, retries, workers, lab>>

\* blocking_update_pointer_table, the table exists: the transaction INSERT
\* INTO raw_{worker} SELECT * FROM raw_{worker}_{job_id}; DELETE; INSERT of
\* the pointer row, then DROP TABLE raw_{worker}_{job_id}
DaskTransaction(w) ==
    /\ phase \in {"load", "except", "failed"}
    /\ cfg.dask_is_enabled
    /\ wk[w].pc = "tx"
    /\ \/ /\ raw' = [raw EXCEPT ![w].rows = @ (+) wk[w].tmp]
          /\ loaded' = loaded (+) wk[w].tmp
          /\ pointer' = DeleteInsert(pointer, w, wk[w].commit_ck)
          /\ \/ /\ wk' = [wk EXCEPT ![w] =
                            Returned([@ EXCEPT !.last_commit = wk[w].commit_ck,
                                               !.tmp = EmptyBag])]
                /\ UNCHANGED faults
             \/ /\ MayFail
                /\ Fault(TRUE)
                /\ wk' = [wk EXCEPT ![w] = Raised(@)]
       \/ /\ MayFail
          /\ Fault(TRUE)
          /\ wk' = [wk EXCEPT ![w] = Raised(@)]
          /\ UNCHANGED <<raw, loaded, pointer>>
    /\ UNCHANGED <<listing, cfg, runs, phase, outcome, pointerExists, deduped,
                   dest, staged, retries, workers, lab>>

\* blocking_update_pointer_table, the table was missing: the INSERT of the
\* pointer row
DaskInsertPointer(w) ==
    /\ phase \in {"load", "except", "failed"}
    /\ cfg.dask_is_enabled
    /\ wk[w].pc = "insert"
    /\ \/ /\ pointer' = InsertRow(pointer, PointerRow(w, wk[w].commit_ck))
          /\ wk' = [wk EXCEPT ![w] =
                      Returned([@ EXCEPT !.last_commit = wk[w].commit_ck])]
          /\ UNCHANGED faults
       \/ /\ MayFail
          /\ Fault(TRUE)
          /\ wk' = [wk EXCEPT ![w] = Raised(@)]
          /\ UNCHANGED pointer
    /\ UNCHANGED <<listing, cfg, runs, phase, outcome, pointerExists, raw,
                   deduped, dest, staged, retries, workers, loaded, lab>>

\* clean_preload_files in the `finally` of process: every object under the
\* worker's prefix in destination_bucket_name is deleted
DaskCleanPreload(w) ==
    /\ phase = "load"
    /\ cfg.dask_is_enabled
    /\ wk[w].pc = "finally"
    /\ \/ /\ staged' = [staged EXCEPT ![w] =
                          IF cfg.destination_bucket_name = cfg.source_bucket_name
                          THEN {} ELSE @]
          /\ wk' = [wk EXCEPT ![w].pc = IF wk[w].err THEN "error" ELSE "done"]
          /\ UNCHANGED faults
       \/ /\ MayFail
          /\ Fault(TRUE)
          /\ wk' = [wk EXCEPT ![w].pc = "error", ![w].err = TRUE]
          /\ UNCHANGED staged
    /\ UNCHANGED <<listing, cfg, runs, phase, outcome, durable, retries,
                   workers, lab>>

\* dask_load_worker_tables, one turn of its loop up to the start of the
\* workers: RetryTaskManager.setup, then parallel_load_worker_tables
\* (load_queues_to_process, one DaskGoldskyWorker per queue)
DaskDiscover ==
    /\ phase = "discover"
    /\ cfg.dask_is_enabled
    /\ \/ /\ \E worker_status \in WorkerStatuses(pointerExists, pointer) :
               LET qs == LoadQueues(ListBlobs(listing), worker_status,
                                    cfg.max_objects_to_load, None)
               IN /\ workers' = qs.keys
                  /\ wk' = [w \in Workers |->
                              IF HasQueue(qs, w) THEN DaskStart(qs.queues[w])
                              ELSE NoWorker]
          /\ phase' = "load"
          /\ UNCHANGED faults
       \/ /\ MayFail
          /\ Fault(TRUE)
          /\ phase' = "except"
          /\ UNCHANGED <<workers, wk>>
    /\ UNCHANGED <<listing, cfg, runs, outcome, durable, staged, retries, lab>>

\* A thread of the worker is inside blocking_update_pointer_table.
InCommit(w) == wk[w].pc \in {"tx", "insert"}

\* The `except Exception` of dask_load_worker_tables at time now: a
\* failure more than 600 seconds after last_restart starts a new window,
\* otherwise the error is raised once retries > 3.
DaskRetry(retries_, last_restart, now) ==
    IF now > last_restart + RestartWindow
    THEN [last_restart |-> now, retries |-> 1, raise |-> FALSE]
    ELSE IF retries_ > ClusterRetries
         THEN [last_restart |-> last_restart, retries |-> retries_,
               raise |-> TRUE]
         ELSE [last_restart |-> last_restart, retries |-> retries_ + 1,
               raise |-> FALSE]

\* dask_load_worker_tables, its `except Exception`, the failure coming
\* within the window or after it
DaskExcept ==
    /\ phase = "except"
    /\ \A w \in Workers : ~InCommit(w)
    /\ \E now \in {0, RestartWindow + 1} :
         LET r == DaskRetry(retries, 0, now)
         IN /\ retries' = r.retries
            /\ phase' = IF r.raise THEN "failed" ELSE "discover"
    /\ workers' = <<>>
    /\ wk' = [w \in Workers |-> NoWorker]
    /\ UNCHANGED <<listing, cfg, runs, outcome, durable, staged, faults, lab>>

\* A thread of the worker is running.
Active(w) == wk[w].pc \in {"load", "ptr", "tx", "insert"}

\* The load left as soon as one worker is done.
LoadDoneEarly ==
    /\ phase = "load"
    /\ \E w \in Workers : wk[w].pc = "done"
    /\ \A w \in Workers : wk[w].pc # "error"
    /\ phase' = "dedupe"
    /\ UNCHANGED <<listing, cfg, runs, outcome, durable, workers, wk, faults,
                   staged, retries, lab>>

\* `for coro in asyncio.as_completed(...)` has awaited every worker
LoadDone ==
    /\ phase = "load"
    /\ \A w \in Workers : wk[w].pc \in {"none", "done"}
    /\ phase' = "dedupe"
    /\ UNCHANGED <<listing, cfg, runs, outcome, durable, workers, wk, faults, staged, retries, lab>>

\* the await of a worker that raised: the exception leaves materialize
LoadFail ==
    /\ phase = "load"
    /\ \E w \in Workers : wk[w].pc = "error"
    /\ phase' = IF cfg.dask_is_enabled THEN "except" ELSE "failed"
    /\ UNCHANGED <<listing, cfg, runs, outcome, durable, workers, wk, faults, staged, retries, lab>>

\* The dedupe model of the transform layer: deduped_{worker} is rebuilt
\* from raw_{worker}, one row per unique id.
DedupeTransform(raw_table) == [exists |-> TRUE, rows |-> BagToSet(raw_table.rows)]

\* A dedupe that builds a deduped table for every worker name.
DedupeEveryWorker ==
    /\ phase = "dedupe"
    /\ deduped' = [w \in Workers |-> DedupeTransform(raw[w])]
    /\ phase' = "merge"
    /\ UNCHANGED <<listing, cfg, runs, outcome, pointerExists, pointer, raw,
                   dest, workers, wk, loaded, staged, retries, faults, lab>>

\* dedupe_worker_tables
Dedupe ==
    /\ phase = "dedupe"
    /\ \/ /\ \A w \in Range(workers) : raw[w].exists
          /\ deduped' = [w \in Workers |->
                           IF w \in Range(workers) THEN DedupeTransform(raw[w])
                           ELSE deduped[w]]
          /\ phase' = "merge"
          /\ UNCHANGED faults
       \/ /\ \E w \in Range(workers) : ~raw[w].exists
          /\ phase' = "failed"
          /\ UNCHANGED <<deduped, faults>>
       \/ /\ MayFail
          /\ Fault(TRUE)
          /\ phase' = "failed"
          /\ UNCHANGED deduped
    /\ UNCHANGED <<listing, cfg, runs, outcome, pointerExists, pointer, raw,
                   dest, workers, wk, loaded, staged, retries, lab>>

\* The merge model of the transform layer: MERGE INTO the destination, keyed
\* on the unique id, of the union of the workers' deduped tables.
MergeTransform(destination, tables) ==
    destination \cup UNION {t.rows : t \in tables}

\* merge_worker_tables
Merge ==
    /\ phase = "merge"
    /\ \/ /\ dest' = MergeTransform(dest, {deduped[w] : w \in Range(workers)})
          /\ phase' = "cleanup"
          /\ UNCHANGED faults
       \/ /\ MayFail
          /\ Fault(TRUE)
          /\ phase' = "failed"
          /\ UNCHANGED dest
    /\ UNCHANGED <<listing, cfg, runs, outcome, pointerExists, pointer, raw,
                   deduped, workers, wk, loaded, staged, retries, lab>>

\* clean_working_destination, one worker of its loop
CleanWorker ==
    /\ phase = "cleanup"
    /\ \E i \in DOMAIN workers :
         /\ wk[workers[i]].pc # "cleaned"
         /\ \A j \in 1..(i - 1) : wk[workers[j]].pc = "cleaned"
         /\ raw' = [raw EXCEPT ![workers[i]] = NoTable]
         /\ deduped' = [deduped EXCEPT ![workers[i]] = NoDeduped]
         /\ wk' = [wk EXCEPT ![workers[i]].pc = "cleaned"]
    /\ UNCHANGED <<listing, cfg, runs, phase, outcome, pointerExists, pointer,
                   dest, workers, loaded, faults, staged, retries, lab>>

\* materialize returns
Finish ==
    /\ phase = "cleanup"
    /\ \A w \in Range(workers) : wk[w].pc = "cleaned"
    /\ phase' = "idle"
    /\ outcome' = "success"
    /\ UNCHANGED <<listing, cfg, runs, durable, workers, wk, faults, staged, retries, lab>>

\* The failed run's process ends once its loader threads have ended.
Exit ==
    /\ phase = "failed"
    /\ \A w \in Workers : ~Active(w)
    /\ phase' = "idle"
    /\ outcome' = "failed"
    /\ workers' = <<>>
    /\ wk' = [w \in Workers |-> NoWorker]
    /\ UNCHANGED <<listing, cfg, runs, durable, faults, staged, retries, lab>>

\* The run's process is killed, at any step.
Crash ==
    /\ phase # "idle"
    /\ MayFail
    /\ Fault(TRUE)
    /\ phase' = "idle"
    /\ outcome' = "failed"
    /\ workers' = <<>>
    /\ wk' = [w \in Workers |-> NoWorker]
    /\ UNCHANGED <<listing, cfg, runs, durable, staged, retries, lab>>

\* The program.
Next ==
    \/ StartRun
    \/ EnsurePointer
    \/ DirectDiscover
    \/ \E w \in Workers : DirectLoad(w)
    \/ \E w \in Workers : DirectPointer(w)
    \/ LoadWorkerTablesDask
    \/ LoadDone
    \/ LoadFail
    \/ Dedupe
    \/ Merge
    \/ CleanWorker
    \/ Finish
    \/ Exit
    \/ Crash

Spec == Init /\ [][Next]_vars

\* The program with the Parallel loader entered.
ParallelNext ==
    \/ StartRun
    \/ EnsurePointer
    \/ DirectDiscover
    \/ \E w \in Workers : DirectLoad(w)
    \/ \E w \in Workers : DirectPointer(w)
    \/ DaskDiscover
    \/ \E w \in Workers : DaskAwait(w)
    \/ \E w \in Workers : DaskLoadData(w)
    \/ \E w \in Workers : DaskTransaction(w)
    \/ \E w \in Workers : DaskInsertPointer(w)
    \/ \E w \in Workers : DaskCleanPreload(w)
    \/ DaskExcept
    \/ LoadDone
    \/ LoadFail
    \/ Dedupe
    \/ Merge
    \/ CleanWorker
    \/ Finish
    \/ Exit
    \/ Crash

ParallelSpec == Init /\ [][ParallelNext]_vars

---------------------------------------------------------------------------
(* A GoldskyQueue on its own: any sequence of enqueue and dequeue calls on *)
(* the queue of one worker.  lab = [q, out, mixed, ops, size, nones]: the  *)
(* queue, the items the dequeues returned so far, whether an enqueue       *)
(* followed a dequeue, the number of calls made, the enqueue calls since   *)
(* the last empty() less the items returned since, and the dequeue calls   *)
(* that returned None.                                                     *)

QueueSizes == {0, 2, MaxOps}
QueueItems == {b \in AllBlobs : b.worker = 0}

QueueInit ==
    /\ listing = {}
    /\ cfg = [dask_is_enabled |-> FALSE, schema_overrides |-> FALSE,
              pointer_size |-> 1, max_objects_to_load |-> 0,
              source_bucket_name |-> "source",
              destination_bucket_name |-> "destination"]
    /\ Fresh
    /\ \E max_size \in QueueSizes :
         lab = [q |-> GoldskyQueue(max_size), out |-> <<>>, mixed |-> FALSE,
                ops |-> 0, size |-> 0, nones |-> 0]

\* GoldskyQueue.enqueue
QueueEnqueue ==
    /\ lab.ops < MaxOps
    /\ \E item \in QueueItems :
         lab' = [lab EXCEPT !.q = QEnqueue(@, item),
                            !.mixed = @ \/ Len(lab.out) > 0,
                            !.ops = @ + 1, !.size = @ + 1]
    /\ UNCHANGED <<listing, cfg, runs, phase, outcome, durable, staged,
                   retries, workers, wk, faults>>

\* GoldskyQueue.dequeue
QueueDequeue ==
    /\ lab.ops < MaxOps
    /\ LET r == QDequeue(lab.q)
       IN lab' = [lab EXCEPT !.q = r[2],
                             !.out = IF r[1] = None THEN @ ELSE Append(@, r[1]),
                             !.ops = @ + 1,
                             !.size = IF r[1] = None THEN @ ELSE @ - 1,
                             !.nones = IF r[1] = None THEN @ + 1 ELSE @]
    /\ UNCHANGED <<listing, cfg, runs, phase, outcome, durable, staged,
                   retries, workers, wk, faults>>

\* GoldskyQueue.empty
QueueEmpty ==
    /\ lab.ops < MaxOps
    /\ lab' = [lab EXCEPT !.q = QEmpty(@), !.ops = @ + 1, !.size = 0]
    /\ UNCHANGED <<listing, cfg, runs, phase, outcome, durable, staged,
                   retries, workers, wk, faults>>

QueueNext ==
    \/ QueueEnqueue
    \/ QueueDequeue
    \/ QueueEmpty

QueueSpec == QueueInit /\ [][QueueNext]_vars

---------------------------------------------------------------------------
(* GoldskyQueues.peek on its own: the queues load_queues builds from a     *)
(* listing, and beside them a copy that is never peeked.  lab = [qs, ref,  *)
(* out, refout, peeks, raised, ops]: the queues, the copy, per worker the  *)
(* results (items and None) of the dequeue calls on each, the peek calls   *)
(* made, whether one raised, and the number of calls made.                 *)

PeekSizes == {0, 1, 2, MaxBlobs}

PeekInit ==
    /\ listing \in Listings
    /\ cfg = [dask_is_enabled |-> FALSE, schema_overrides |-> TRUE,
              pointer_size |-> 1, max_objects_to_load |-> 0,
              source_bucket_name |-> "source",
              destination_bucket_name |-> "destination"]
    /\ Fresh
    /\ \E max_size \in PeekSizes :
         LET qs == LoadQueues(ListBlobs(listing), [w \in {} |-> DefaultStatus],
                              max_size, None)
         IN lab = [qs |-> qs, ref |-> qs,
                   out |-> [w \in Workers |-> <<>>],
                   refout |-> [w \in Workers |-> <<>>],
                   peeks |-> 0, raised |-> FALSE, ops |-> 0]

\* GoldskyQueues.peek
PeekCall ==
    /\ lab.ops < MaxOps
    /\ ~lab.raised
    /\ LET r == QsPeek(lab.qs)
       IN lab' = [lab EXCEPT !.qs = r.qs, !.raised = r.raise,
                             !.peeks = @ + 1, !.ops = @ + 1]
    /\ UNCHANGED <<listing, cfg, runs, phase, outcome, durable, staged,
                   retries, workers, wk, faults>>

\* GoldskyQueues.dequeue(worker), on the queues and on the copy
PeekDequeue ==
    /\ lab.ops < MaxOps
    /\ ~lab.raised
    /\ \E w \in Workers :
         /\ HasQueue(lab.qs, w)
         /\ LET r == QDequeue(lab.qs.queues[w])
                f == QDequeue(lab.ref.queues[w])
            IN lab' = [lab EXCEPT !.qs.queues[w] = r[2],
                                  !.ref.queues[w] = f[2],
                                  !.out[w] = Append(@, r[1]),
                                  !.refout[w] = Append(@, f[1]),
                                  !.ops = @ + 1]
    /\ UNCHANGED <<listing, cfg, runs, phase, outcome, durable, staged,
                   retries, workers, wk, faults>>

PeekNext ==
    \/ PeekCall
    \/ PeekDequeue

PeekSpec == PeekInit /\ [][PeekNext]_vars

---------------------------------------------------------------------------
(* The pointer table name of a backfill.  A string is the sequence of its  *)
(* characters, the text "{destination_table_name}_pointer_state" being the *)
(* one token "pointer_state".  lab = [label, name, built]: the            *)
(* backfill_label of the op's config, the pointer_table_name of the        *)
(* GoldskyAsset the op builds, and whether the op has built it.            *)

Chars == {"_", "q", "1"}
Labels == UNION {[1..n -> Chars] : n \in 0..MaxLabel}

\* str.startswith
StartsWith(str, prefix) == Len(str) > 0 /\ str[1] = prefix

\* A name that leaves the suffix out.
PointerTableNameNoSuffix(self_pointer_table_suffix) == <<"pointer_state">>

\* GoldskyAsset.pointer_table_name
PointerTableName(self_pointer_table_suffix) ==
    LET pointer_table_suffix ==
            IF self_pointer_table_suffix # <<>>
               /\ ~StartsWith(self_pointer_table_suffix, "_")
            THEN <<"_">> \o self_pointer_table_suffix
            ELSE self_pointer_table_suffix
    IN <<"pointer_state">> \o self_pointer_table_suffix

BackfillInit ==
    /\ listing = {}
    /\ cfg = [dask_is_enabled |-> FALSE, schema_overrides |-> FALSE,
              pointer_size |-> 1, max_objects_to_load |-> 0,
              source_bucket_name |-> "source",
              destination_bucket_name |-> "destination"]
    /\ Fresh
    /\ \E label \in Labels : lab = [label |-> label, name |-> <<>>, built |-> FALSE]

\* goldsky_backfill_op: materialize_asset(..., pointer_table_suffix =
\* backfill_label), up to the GoldskyAsset's pointer_table_name
BackfillOp ==
    /\ ~lab.built
    /\ lab' = [lab EXCEPT !.name = PointerTableName(lab.label),
                          !.built = TRUE]
    /\ UNCHANGED <<listing, cfg, runs, phase, outcome, durable, staged,
                   retries, workers, wk, faults>>

BackfillNext == BackfillOp

BackfillSpec == BackfillInit /\ [][BackfillNext]_vars

---------------------------------------------------------------------------
(* Runs of the asset and of the backfill op side by side.  pointerExists   *)
(* and pointer are the table self.pointer_table names in the GoldskyAsset  *)
(* of the run; lab = [label, range, tables] keeps the pointer_table_suffix *)
(* and the checkpoint_range of that GoldskyAsset, and every pointer table  *)
(* by name as the run before left it.                                      *)

RunLabels == {<<>>, <<"q">>}
PointerNames == {PointerTableName(label) : label \in RunLabels}

\* The pointer table name of generated_asset (pointer_table_suffix = "").
PrimaryName == PointerTableName(<<>>)

\* The checkpoint ranges a backfill is started with.
BackfillRanges ==
    {GoldskyCheckpointRange(None, end) :
        end \in {None, GoldskyCheckpoint(3, 1, 2)}}

RunsInit ==
    /\ listing \in Listings
    /\ cfg \in {c \in Configs : /\ ~c.dask_is_enabled
                                /\ ~c.schema_overrides
                                /\ c.max_objects_to_load = 2}
    /\ Fresh
    /\ lab = [label |-> <<>>, range |-> None,
              tables |-> [n \in PointerNames |-> NoTable]]

\* materialize_asset: a new GoldskyAsset with the pointer_table_suffix and
\* the checkpoint_range given; ensure_datasets
MaterializeAsset(checkpoint_range, pointer_table_suffix) ==
    LET tables == [lab.tables EXCEPT ![PointerTableName(lab.label)] =
                      [exists |-> pointerExists, rows |-> pointer]]
    IN /\ phase = "idle"
       /\ runs < MaxRuns
       /\ runs' = runs + 1
       /\ phase' = "ensure_pointer"
       /\ outcome' = "none"
       /\ staged' = [w \in Workers |-> {}]
       /\ retries' = 0
       /\ workers' = <<>>
       /\ wk' = [w \in Workers |-> NoWorker]
       /\ lab' = [label |-> pointer_table_suffix, range |-> checkpoint_range,
                  tables |-> tables]
       /\ pointerExists' = tables[PointerTableName(pointer_table_suffix)].exists
       /\ pointer' = tables[PointerTableName(pointer_table_suffix)].rows
       /\ UNCHANGED <<listing, cfg, raw, deduped, dest, loaded, faults>>

\* generated_asset
GeneratedAsset == MaterializeAsset(None, <<>>)

\* goldsky_backfill_op
GoldskyBackfillOp ==
    \E label \in RunLabels, checkpoint_range \in BackfillRanges :
        MaterializeAsset(checkpoint_range, label)

\* direct_load_worker_tables with the run's checkpoint_range
RunDiscover == DirectLoadWorkerTables(lab.range)

\* The primary pointer table, whichever run is in progress.
PrimaryTable ==
    IF PointerTableName(lab.label) = PrimaryName
    THEN [exists |-> pointerExists, rows |-> pointer]
    ELSE lab.tables[PrimaryName]

\* The rows of the pointer table of a name, whichever run is in progress.
PointerTableRows(name) ==
    IF PointerTableName(lab.label) = name THEN pointer
    ELSE lab.tables[name].rows

RunsNext ==
    \/ GeneratedAsset
    \/ GoldskyBackfillOp
    \/ EnsurePointer
    \/ RunDiscover
    \/ \E w \in Workers : DirectLoad(w)
    \/ \E w \in Workers : DirectPointer(w)
    \/ LoadDone
    \/ LoadFail
    \/ Dedupe
    \/ Merge
    \/ CleanWorker
    \/ Finish
    \/ Exit
    \/ Crash

RunsSpec == RunsInit /\ [][RunsNext]_vars

---------------------------------------------------------------------------
(* bq_retry on its own.  lab = [outs, res, calls, called]: what each call  *)
(* of f would meet ("other" is an exception that is neither an             *)
(* InternalServerError nor a ClientError), the result of bq_retry, the     *)
(* calls of f it made, and whether bq_retry has been called.               *)

BqOutcomes == {"ok", "server", "client", "other"}

BqRetryInit ==
    /\ listing = {}
    /\ cfg = [dask_is_enabled |-> FALSE, schema_overrides |-> FALSE,
              pointer_size |-> 1, max_objects_to_load |-> 0,
              source_bucket_name |-> "source",
              destination_bucket_name |-> "destination"]
    /\ Fresh
    /\ \E outs \in [1..BqRetries -> BqOutcomes] :
         lab = [outs |-> outs, res |-> "unset", calls |-> 0, called |-> FALSE]

\* bq_retry(context, f)
BqRetryCall ==
    /\ ~lab.called
    /\ lab' = [lab EXCEPT !.res = BqRetry(lab.outs),
                          !.calls = BqRetryCalls(lab.outs),
                          !.called = TRUE]
    /\ UNCHANGED <<listing, cfg, runs, phase, outcome, durable, staged,
                   retries, workers, wk, faults>>

BqRetryNext == BqRetryCall

BqRetrySpec == BqRetryInit /\ [][BqRetryNext]_vars

---------------------------------------------------------------------------
(* The retry loop of dask_load_worker_tables on its own, with the clock.   *)
(* lab = [pc, now, last_restart, retries, tries, window]: where the loop   *)
(* is, time.time() in seconds since the function was entered, the two      *)
(* locals, the attempts started so far, and the attempts started after a   *)
(* failure inside the window that began at last_restart.                   *)

\* Seconds an attempt runs before it fails.
Durations == {0, 300, RestartWindow + 1}

ClusterInit ==
    /\ listing = {}
    /\ cfg = [dask_is_enabled |-> TRUE, schema_overrides |-> FALSE,
              pointer_size |-> 1, max_objects_to_load |-> 0,
              source_bucket_name |-> "source",
              destination_bucket_name |-> "destination"]
    /\ Fresh
    /\ lab = [pc |-> "try", now |-> 0, last_restart |-> 0, retries |-> 0,
              tries |-> 1, window |-> 0]

\* parallel_load_worker_tables returns
ClusterReturn ==
    /\ lab.pc = "try"
    /\ \E d \in Durations : lab' = [lab EXCEPT !.pc = "returned", !.now = @ + d]
    /\ UNCHANGED <<listing, cfg, runs, phase, outcome, durable, staged,
                   retries, workers, wk, faults>>

\* RetryTaskManager.setup or parallel_load_worker_tables raises
ClusterFail ==
    /\ lab.pc = "try"
    /\ \E d \in Durations : lab' = [lab EXCEPT !.pc = "except", !.now = @ + d]
    /\ UNCHANGED <<listing, cfg, runs, phase, outcome, durable, staged,
                   retries, workers, wk, faults>>

\* the `except Exception` clause, and the next turn of `while True`
ClusterExcept ==
    /\ lab.pc = "except"
    /\ lab.tries < MaxAttempts
    /\ LET r == DaskRetry(lab.retries, lab.last_restart, lab.now)
       IN lab' = [lab EXCEPT
                    !.pc = IF r.raise THEN "raised" ELSE "try",
                    !.last_restart = r.last_restart,
                    !.retries = r.retries,
                    !.tries = IF r.raise THEN @ ELSE @ + 1,
                    !.window = IF r.raise THEN @
                               ELSE IF r.last_restart # lab.last_restart THEN 0
                               ELSE @ + 1]
    /\ UNCHANGED <<listing, cfg, runs, phase, outcome, durable, staged,
                   retries, workers, wk, faults>>

ClusterNext ==
    \/ ClusterReturn
    \/ ClusterFail
    \/ ClusterExcept

ClusterSpec == ClusterInit /\ [][ClusterNext]_vars

---------------------------------------------------------------------------
(* The checkpoint comparisons and in_range on their own.  lab = [a, b, c,  *)
(* with_start, with_end, done, ...]: three checkpoints, whether the range  *)
(* is built with start = a and with end = b, and, once the comparisons     *)
(* were made, their results: a against b, b < c, a < c, and c in the range.*)

\* job_id "", "0" and, above them, text of the form of a UUID.
JobIds == 0..(JobZero + MaxField)
Checkpoints ==
    {GoldskyCheckpoint(job_id, timestamp, worker_checkpoint) :
        job_id \in JobIds, timestamp \in 0..MaxField,
        worker_checkpoint \in 0..MaxField}

CheckpointInit ==
    /\ listing = {}
    /\ cfg = [dask_is_enabled |-> FALSE, schema_overrides |-> FALSE,
              pointer_size |-> 1, max_objects_to_load |-> 0,
              source_bucket_name |-> "source",
              destination_bucket_name |-> "destination"]
    /\ Fresh
    /\ \E a, b, c \in Checkpoints, with_start, with_end \in BOOLEAN :
         lab = [a |-> a, b |-> b, c |-> c, with_start |-> with_start,
                with_end |-> with_end, done |-> FALSE,
                lt |-> FALSE, le |-> FALSE, eq |-> FALSE, gt |-> FALSE,
                ge |-> FALSE, lt_bc |-> FALSE, lt_ac |-> FALSE,
                in_range |-> FALSE]

\* a < b, a <= b, a == b, a > b, a >= b, b < c, a < c, and
\* GoldskyCheckpointRange(start, end).in_range(c)
CheckpointCompare ==
    /\ ~lab.done
    /\ LET range == GoldskyCheckpointRange(
                       IF lab.with_start THEN lab.a ELSE None,
                       IF lab.with_end THEN lab.b ELSE None)
       IN lab' = [lab EXCEPT !.done = TRUE,
                             !.lt = CkLt(lab.a, lab.b),
                             !.le = CkLe(lab.a, lab.b),
                             !.eq = CkEq(lab.a, lab.b),
                             !.gt = CkGt(lab.a, lab.b),
                             !.ge = CkGe(lab.a, lab.b),
                             !.lt_bc = CkLt(lab.b, lab.c),
                             !.lt_ac = CkLt(lab.a, lab.c),
                             !.in_range = InRange(range, lab.c)]
    /\ UNCHANGED <<listing, cfg, runs, phase, outcome, durable, staged,
                   retries, workers, wk, faults>>

CheckpointNext == CheckpointCompare

CheckpointSpec == CheckpointInit /\ [][CheckpointNext]_vars

---------------------------------------------------------------------------
(* The retention clean-up job, GoldskyAsset.clean_up, on its own: one call *)
(* over a source listing and a pointer table.  lab = [retention_files,     *)
(* done, raise, selected]: the config value, whether clean_up was called,  *)
(* whether it raised, and per worker the blobs it put in `blobs`.          *)

RetentionFiles == {0, 1, 2}

\* Pointer tables with at most one row per worker, each the checkpoint of
\* a blob of that worker.
PointerStates ==
    {SetToBag({PointerRow(b.worker, ItemCheckpoint(b)) : b \in S}) :
        S \in {T \in SUBSET AllBlobs :
                 \A x, y \in T : x.worker = y.worker => x = y}}

\* end_checkpoint = worker_status.get("0") and the loop that lowers it:
\* [raise, end].  The comparison with a None end_checkpoint raises.
CleanUpEnd(worker_status) ==
    IF DOMAIN worker_status = {} THEN [raise |-> FALSE, end |-> None]
    ELSE IF 0 \notin DOMAIN worker_status THEN [raise |-> TRUE, end |-> None]
    ELSE [raise |-> FALSE,
          end |-> CHOOSE c \in {worker_status[w] : w \in DOMAIN worker_status} :
                     \A w \in DOMAIN worker_status : ~CkLt(worker_status[w], c)]

\* load_queues called with or without a worker_status: [raise, qs].  After
\* the loop, worker_status.keys() raises when worker_status is None.
LoadQueuesCall(blobs, given, worker_status, max_objects_to_load, checkpoint_range) ==
    [raise |-> ~given,
     qs |-> LoadQueues(blobs,
                       IF given THEN worker_status ELSE [w \in {} |-> DefaultStatus],
                       max_objects_to_load, checkpoint_range)]

RECURSIVE DequeueTimes(_, _)
\* `for i in range(n): item = queue.dequeue(); blobs.append(item.blob_name)`:
\* [raise, blobs]
DequeueTimes(q, n) ==
    IF n <= 0 THEN [raise |-> FALSE, blobs |-> <<>>]
    ELSE LET r == QDequeue(q)
         IN IF r[1] = None THEN [raise |-> TRUE, blobs |-> <<>>]
            ELSE LET rest == DequeueTimes(r[2], n - 1)
                 IN [raise |-> rest.raise, blobs |-> <<r[1]>> \o rest.blobs]

RECURSIVE CleanUpWorkers(_, _, _, _)
\* The loop over queues.worker_queues() from the i-th queue on: [raise,
\* selected].  blobs[-1] raises when the worker's list is empty.
CleanUpWorkers(qs, i, retention_files, selected) ==
    IF i > Len(qs.keys) THEN [raise |-> FALSE, selected |-> selected]
    ELSE LET worker == qs.keys[i]
             queue == qs.queues[worker]
             cleaning_count == QLen(queue) - retention_files
             r == DequeueTimes(queue, cleaning_count)
             sel == [selected EXCEPT ![worker] = Range(r.blobs)]
         IN IF r.raise THEN [raise |-> TRUE, selected |-> selected]
            ELSE IF r.blobs = <<>> THEN [raise |-> TRUE, selected |-> sel]
            ELSE CleanUpWorkers(qs, i + 1, retention_files, sel)

\* clean_up with the worker_status its SELECT gave: [raise, selected]
CleanUp(blobs, worker_status, retention_files) ==
    LET nothing == [w \in Workers |-> {}]
        e == CleanUpEnd(worker_status)
        lq == LoadQueuesCall(blobs, FALSE, worker_status, CleanUpMaxObjects,
                             GoldskyCheckpointRange(None, e.end))
    IN IF e.raise THEN [raise |-> TRUE, selected |-> nothing]
       ELSE IF lq.raise THEN [raise |-> TRUE, selected |-> nothing]
       ELSE CleanUpWorkers(lq.qs, 1, retention_files, nothing)

CleanUpInit ==
    /\ listing \in Listings
    /\ cfg = [dask_is_enabled |-> FALSE, schema_overrides |-> FALSE,
              pointer_size |-> 1, max_objects_to_load |-> 2,
              source_bucket_name |-> "source",
              destination_bucket_name |-> "destination"]
    /\ runs = 0
    /\ phase = "idle"
    /\ outcome = "none"
    /\ pointerExists = TRUE
    /\ pointer \in PointerStates
    /\ raw = [w \in Workers |-> NoTable]
    /\ deduped = [w \in Workers |-> NoDeduped]
    /\ dest = {}
    /\ staged = [w \in Workers |-> {}]
    /\ retries = 0
    /\ workers = <<>>
    /\ wk = [w \in Workers |-> NoWorker]
    /\ loaded = EmptyBag
    /\ faults = 0
    /\ \E retention_files \in RetentionFiles :
         lab = [retention_files |-> retention_files, done |-> FALSE,
                raise |-> FALSE, selected |-> [w \in Workers |-> {}]]

\* goldsky_clean_up_op
CleanUpOp ==
    /\ ~lab.done
    /\ \E worker_status \in WorkerStatuses(pointerExists, pointer) :
         LET r == CleanUp(ListBlobs(listing), worker_status, lab.retention_files)
         IN lab' = [lab EXCEPT !.done = TRUE, !.raise = r.raise,
                               !.selected = r.selected]
    /\ UNCHANGED <<listing, cfg, runs, phase, outcome, durable, staged,
                   retries, workers, wk, faults>>

CleanUpNext == CleanUpOp

CleanUpSpec == CleanUpInit /\ [][CleanUpNext]_vars

---------------------------------------------------------------------------
(* Schema inference, load_schema, on its own.  A polars type is [kind,     *)
(* precision, scale, inner], inner the element type of a List and None     *)
(* otherwise; a SchemaField is [name, field_type, mode, decimal], decimal  *)
(* being <<precision, scale>> when the two were given and <<>> when not.   *)
(* lab = [parquet_schema, schema_overrides, done, raise, schema].          *)

PType(kind) == [kind |-> kind, precision |-> 0, scale |-> 0, inner |-> None]
PDecimal(precision, scale) ==
    [kind |-> "Decimal", precision |-> precision, scale |-> scale,
     inner |-> None]
PList(inner) == [kind |-> "List", precision |-> 0, scale |-> 0, inner |-> inner]

SchemaField(name, field_type, mode, decimal) ==
    [name |-> name, field_type |-> field_type, mode |-> mode,
     decimal |-> decimal]

\* The basic_type_convert entries of PARQUET_TO_BQ_FIELD_TYPES
BasicTypes ==
    [Boolean |-> "BOOLEAN", Int64 |-> "INT64", Int32 |-> "INT64",
     Date |-> "DATE", String |-> "STRING", Datetime |-> "TIMESTAMP",
     Float64 |-> "FLOAT64", Float32 |-> "FLOAT64"]

\* The keys of PARQUET_TO_BQ_FIELD_TYPES
TableKinds == DOMAIN BasicTypes \cup {"Decimal", "List"}

\* The types whose instances carry parameters (and hash by them).
Parametrized(kind) == kind \in {"Decimal", "List", "Datetime"}

\* basic_type_convert(type_name)(name, _)
BasicTypeConvert(type_name, name) ==
    SchemaField(name, type_name, "NULLABLE", <<>>)

\* decimal_convert
DecimalConvert(name, field) ==
    IF field.precision = 100 /\ field.scale = 0
    THEN SchemaField(name, "NUMERIC", "NULLABLE", <<>>)
    ELSE SchemaField(name, "DECIMAL", "NULLABLE",
                     <<field.precision, field.scale>>)

RECURSIVE FieldTypeConverter(_, _, _)
\* PARQUET_TO_BQ_FIELD_TYPES[key](name, field), the key being of the kind
\* of field: [raise, field].  list_type_convert looks the table up with
\* the inner type itself, not with its class: for an inner type that
\* carries parameters the lookup finds the class's entry (by_class) or
\* raises KeyError, as the type's hash has it.
FieldTypeConverter(name, field, by_class) ==
    IF field.kind \in DOMAIN BasicTypes
    THEN [raise |-> FALSE,
          field |-> BasicTypeConvert(BasicTypes[field.kind], name)]
    ELSE IF field.kind = "Decimal"
    THEN [raise |-> FALSE, field |-> DecimalConvert(name, field)]
    ELSE IF field.kind = "List"
    THEN LET inner == field.inner
         IN IF \/ inner.kind \notin TableKinds
               \/ Parametrized(inner.kind) /\ ~by_class
            THEN [raise |-> TRUE, field |-> None]
            ELSE LET inner_type == FieldTypeConverter("_inner", inner, by_class)
                 IN IF inner_type.raise THEN [raise |-> TRUE, field |-> None]
                    ELSE [raise |-> FALSE,
                          field |-> SchemaField(name,
                                                inner_type.field.field_type,
                                                "REPEATED", <<>>)]
    ELSE [raise |-> TRUE, field |-> None]

\* overrides_lookup: the names that have an override
OverrideNames(schema_overrides) ==
    {schema_overrides[i].name : i \in DOMAIN schema_overrides}

\* overrides_lookup[field_name]: a later entry of a name replaces an
\* earlier one
OverridesLookup(schema_overrides, field_name) ==
    LET last == CHOOSE i \in DOMAIN schema_overrides :
                   /\ schema_overrides[i].name = field_name
                   /\ \A j \in DOMAIN schema_overrides :
                         schema_overrides[j].name = field_name => j <= i
    IN schema_overrides[last]

RECURSIVE LoadSchemaLoop(_, _, _, _)
\* `for field_name, field in parquet_schema.items()`: [raise, schema]
LoadSchemaLoop(parquet_schema, schema_overrides, schema, by_class) ==
    IF parquet_schema = <<>> THEN [raise |-> FALSE, schema |-> schema]
    ELSE LET field_name == Head(parquet_schema).name
             field == Head(parquet_schema).type
         IN IF field_name \in OverrideNames(schema_overrides)
            THEN LoadSchemaLoop(
                   Tail(parquet_schema), schema_overrides,
                   Append(schema, OverridesLookup(schema_overrides, field_name)),
                   by_class)
            ELSE LET r == FieldTypeConverter(field_name, field, by_class)
                 IN IF r.raise THEN [raise |-> TRUE, schema |-> <<>>]
                    ELSE LoadSchemaLoop(Tail(parquet_schema), schema_overrides,
                                        Append(schema, r.field), by_class)

\* The types a sampled schema holds: those of the table, Decimal with and
\* without precision 100 and scale 0, a type the table does not have, and
\* lists of them.
ScalarTypes ==
    {PType(k) : k \in DOMAIN BasicTypes \cup {"Time"}}
    \cup {PDecimal(100, 0), PDecimal(10, 2)}
ParquetTypes ==
    ScalarTypes
    \cup {PList(t) : t \in {PType("Int64"), PType("Datetime"), PType("Time"),
                            PDecimal(100, 0), PDecimal(10, 2),
                            PList(PType("String"))}}

FieldNames == {"a", "b", "c"}

\* Schemas of at most MaxFields fields of distinct names.
ParquetSchemas ==
    {sch \in UNION {[1..n -> [name : FieldNames, type : ParquetTypes]] :
                       n \in 0..MaxFields} :
        \A i, j \in DOMAIN sch : sch[i].name = sch[j].name => i = j}

\* schema_overrides of the config: pre-built fields for "a", for "b", for
\* both or for none.
SchemaOverrides ==
    {<<>>, <<SchemaField("a", "BYTES", "NULLABLE", <<>>)>>,
     <<SchemaField("b", "JSON", "NULLABLE", <<>>)>>,
     <<SchemaField("a", "BYTES", "NULLABLE", <<>>),
       SchemaField("b", "JSON", "NULLABLE", <<>>)>>}

SchemaInit ==
    /\ listing = {}
    /\ cfg = [dask_is_enabled |-> FALSE, schema_overrides |-> TRUE,
              pointer_size |-> 1, max_objects_to_load |-> 2,
              source_bucket_name |-> "source",
              destination_bucket_name |-> "destination"]
    /\ Fresh
    /\ \E parquet_schema \in ParquetSchemas, schema_overrides \in SchemaOverrides :
         lab = [parquet_schema |-> parquet_schema,
                schema_overrides |-> schema_overrides,
                done |-> FALSE, raise |-> FALSE, schema |-> <<>>]

\* load_schema from polars.read_parquet_schema on
LoadSchema ==
    /\ ~lab.done
    /\ \E by_class \in BOOLEAN :
         LET r == LoadSchemaLoop(lab.parquet_schema, lab.schema_overrides,
                                 <<>>, by_class)
         IN lab' = [lab EXCEPT !.done = TRUE, !.raise = r.raise,
                               !.schema = r.schema]
    /\ UNCHANGED <<listing, cfg, runs, phase, outcome, durable, staged,
                   retries, workers, wk, faults>>

SchemaNext == LoadSchema

SchemaSpec == SchemaInit /\ [][SchemaNext]_vars

---------------------------------------------------------------------------
(* Properties                                                              *)

\* C1: in every reachable state the pointer table holds at most one row per
\* worker, under any sequence of runs and with either loader.
C1_AtMostOneRowPerWorker ==
    \A w \in Workers :
        BagCardinality([r \in RowsOf(pointer, w) |-> pointer[r]]) <= 1

\* C2: in the Direct loader a bulk-load that met a server error on every
\* attempt aborts the worker, and every pointer row of a worker is the
\* checkpoint of a blob that was bulk-loaded for that worker.
C2_PointerOnlyAfterLoad ==
    \A w \in Workers :
        /\ wk[w].loadres = "none" => wk[w].pc = "error"
        /\ \A r \in RowsOf(pointer, w) :
             \E b \in BagToSet(loaded) :
                b.worker = w /\ CkEq(ItemCheckpoint(b), RowCheckpoint(r))

\* C3: a Direct pointer commit is attempted at most 3 times, and a commit
\* whose attempts all failed stops the worker with an error.
C3_PointerFailureFatal ==
    \A w \in Workers :
        /\ wk[w].attempts <= PointerAttempts
        /\ wk[w].ptrres = "none" => wk[w].pc = "error"

\* C4: once a pointer commit of worker w with checkpoint c has returned
\* without raising, the pointer table holds exactly one row for w and that
\* row equals c.
C4_ExactlyOneRowAfterCommit ==
    \A w \in Workers :
        wk[w].last_commit # None =>
            /\ BagCardinality([r \in RowsOf(pointer, w) |-> pointer[r]]) = 1
            /\ \A r \in RowsOf(pointer, w) :
                 CkEq(RowCheckpoint(r), wk[w].last_commit)

\* C5: after any run, completed or failed at any step, every blob whose
\* rows are in raw_{worker} has a checkpoint <= the checkpoint of a pointer
\* row of that worker.
C5_RawCoveredByPointer ==
    (phase = "idle" /\ runs > 0) =>
        \A w \in Workers :
            \A b \in BagToSet(raw[w].rows) :
                \E r \in RowsOf(pointer, w) :
                    CkLe(ItemCheckpoint(b), RowCheckpoint(r))

\* C6: across any sequence of runs over the same listing no blob is
\* bulk-loaded into its worker's raw table more than once.
C6_LoadedAtMostOnce ==
    \A b \in BagToSet(loaded) : loaded[b] <= 1

\* C7: after a run that completed successfully, every blob the run
\* dequeued and processed for worker w has a checkpoint <= the checkpoint
\* of a pointer row of w.
C7_SuccessAdvancesPointer ==
    (phase = "idle" /\ outcome = "success") =>
        \A w \in Range(workers) :
            \A b \in wk[w].seen :
                \E r \in RowsOf(pointer, w) :
                    CkGe(RowCheckpoint(r), ItemCheckpoint(b))

\* C8: every pointer row of worker w equals the checkpoint of some blob of
\* the source listing of that same worker w, after any run and at every
\* step of one.
C8_PointerFromListing ==
    \A r \in BagToSet(pointer) :
        \E b \in listing :
            b.worker = r.worker /\ CkEq(ItemCheckpoint(b), RowCheckpoint(r))

\* A failed run has left a pointer row whose timestamp and worker
\* checkpoint differ.
C8_Witness ==
    /\ phase = "idle"
    /\ outcome = "failed"
    /\ \E r \in BagToSet(pointer) : r.timestamp # r.checkpoint

C10_DequeueOrder ==
    ~lab.mixed =>
        \A i \in 1..(Len(lab.out) - 1) :
            CkLe(ItemCheckpoint(lab.out[i]), ItemCheckpoint(lab.out[i + 1]))

\* Three items of distinct checkpoints were enqueued and then all
\* returned by the dequeues.
C10_Witness ==
    /\ ~lab.mixed
    /\ Len(lab.out) = 3
    /\ \A i \in 1..2 :
         CkLt(ItemCheckpoint(lab.out[i]), ItemCheckpoint(lab.out[i + 1]))

\* C11: under any interleaving of enqueue, dequeue and empty calls the
\* dequeues return at most max_size items, a dequeue made once max_size
\* items were returned gives None whatever the heap holds, and every
\* enqueue call adds its item to the heap.
C11_DequeueCap ==
    /\ Len(lab.out) <= lab.q.max_size
    /\ Len(lab.out) >= lab.q.max_size => QDequeue(lab.q)[1] = None
    /\ Len(lab.q.queue) = lab.size

\* The cap of 2 was reached and a later dequeue returned None while the
\* heap still held an item.
C11_Witness ==
    /\ lab.q.max_size = 2
    /\ Len(lab.out) = 2
    /\ lab.nones > 0
    /\ Len(lab.q.queue) >= 1

\* C12: peek does not raise, and after any peek calls every worker's queue
\* holds the items, and its dequeue calls have returned the results, that
\* they would without the peeks.
C12_PeekFrame ==
    /\ ~lab.raised
    /\ \A w \in Workers :
         /\ lab.out[w] = lab.refout[w]
         /\ HasQueue(lab.qs, w) =>
              Range(lab.qs.queues[w].queue) = Range(lab.ref.queues[w].queue)

\* C13: in a run where the bulk-load of a worker failed or a worker's
\* loader ended in error, no dedupe, merge or clean-up stage is entered and
\* the run does not end in success.
C13_NoStageAfterLoadFailure ==
    (\E w \in Workers : wk[w].loadres \in {"none", "raise"} \/ wk[w].pc = "error")
        => /\ phase \notin {"dedupe", "merge", "cleanup"}
           /\ ~(phase = "idle" /\ outcome = "success")

\* C14: once the failure of the run has left the loader (phase "failed"),
\* no worker's loader is still in flight: none has a bulk-load or a pointer
\* commit left to perform.
C14_QuiesceBeforeFailure ==
    phase = "failed" => \A w \in Workers : ~Active(w)

\* C15: at most one worker at a time is inside a pointer-table write.
C15_OneMutatorInFlight ==
    Cardinality({w \in Workers : InCommit(w)}) <= 1

\* C16: the stages of a run follow one another in the order ensure
\* datasets, ensure pointer, discover, load, dedupe, merge, clean-up: the
\* dedupe is entered from the load with every worker's loader done, the
\* merge from the dedupe with every worker's deduped table built, the
\* clean-up from the merge, and a raw or deduped table is dropped only in
\* the clean-up.
C16_StageOrder ==
    [][/\ (phase' # phase /\ phase' \notin {"failed", "except"}) =>
            <<phase, phase'>> \in
                {<<"idle", "ensure_pointer">>, <<"ensure_pointer", "discover">>,
                 <<"discover", "load">>, <<"except", "discover">>,
                 <<"load", "dedupe">>, <<"dedupe", "merge">>,
                 <<"merge", "cleanup">>, <<"cleanup", "idle">>,
                 <<"failed", "idle">>}
            \/ (phase' = "idle" /\ outcome' = "failed")
       /\ (phase # "dedupe" /\ phase' = "dedupe") =>
            \A w \in Workers : wk[w].pc \in {"none", "done"}
       /\ (phase # "merge" /\ phase' = "merge") =>
            \A w \in Range(workers) : deduped'[w].exists
       /\ \A w \in Workers :
            \/ raw[w].exists /\ ~raw'[w].exists
            \/ deduped[w].exists /\ ~deduped'[w].exists
            => phase = "cleanup"]_vars

\* A run went through every stage and ended in success with rows merged
\* into the destination.
C16_Witness ==
    /\ phase = "idle"
    /\ outcome = "success"
    /\ dest # {}
    /\ \E w \in Workers : wk[w].pc = "cleaned"

\* C17: with max_objects_to_load = 0 no blob is dequeued for loading, no
\* bulk-load is made and no pointer row is written: nothing has been
\* loaded or committed by the runs so far, and, from any listing and any
\* pointer state reached, the queues discovery builds with a cap of 0
\* return no item and start no loop of the loader.
C17_NoWorkAtZero ==
    /\ cfg.max_objects_to_load = 0 =>
         /\ loaded = EmptyBag
         /\ pointer = EmptyBag
         /\ \A w \in Workers : wk[w].seen = {} /\ ~raw[w].exists
    /\ \A worker_status \in WorkerStatuses(pointerExists, pointer) :
         LET qs == LoadQueues(ListBlobs(listing), worker_status, 0, None)
         IN \A w \in DOMAIN qs.queues :
               /\ QDequeue(qs.queues[w])[1] = None
               /\ DirectStart(qs.queues[w]).pc = "error"
               /\ DirectStart(qs.queues[w]).seen = {}

\* A run with max_objects_to_load = 0 over a listing that has blobs has
\* ended, with no failure from outside.
C17_Witness ==
    /\ cfg.max_objects_to_load = 0
    /\ listing # {}
    /\ phase = "idle"
    /\ runs > 0
    /\ faults = 0

\* C18: with an empty source listing the runs write no pointer row and
\* create no raw or deduped table, with or without schema_overrides; from
\* any pointer state discovery builds no queue and peek returns None.
C18_EmptyListing ==
    listing = {} =>
        /\ pointer = EmptyBag
        /\ loaded = EmptyBag
        /\ \A w \in Workers : ~raw[w].exists /\ ~deduped[w].exists
        /\ \A worker_status \in WorkerStatuses(pointerExists, pointer) :
             LET qs == LoadQueues(ListBlobs(listing), worker_status,
                                  cfg.max_objects_to_load, None)
             IN qs.keys = <<>> /\ QsPeek(qs).item = None

\* A run over an empty listing went through every stage.
C18_Witness ==
    /\ listing = {}
    /\ phase = "idle"
    /\ outcome = "success"

\* C19: after a run that ended in success with every blob of the listing
\* bulk-loaded, a further run over the same listing has nothing to do:
\* its discovery enqueues no blob, whichever pointer rows it reads.
C19_SecondRunNoOp ==
    (phase = "idle" /\ outcome = "success" /\ listing \subseteq BagToSet(loaded)) =>
        \A worker_status \in WorkerStatuses(pointerExists, pointer) :
            LoadQueues(ListBlobs(listing), worker_status,
                       cfg.max_objects_to_load, None).keys = <<>>

\* C20: the pointer table name of a backfill with a non-empty label is the
\* primary name followed by "_" and the label, the label counted without
\* the leading underscore it may be given with.
C20_BackfillPointerName ==
    (lab.built /\ lab.label # <<>>) =>
        lab.name = <<"pointer_state", "_">> \o
                   (IF StartsWith(lab.label, "_") THEN Tail(lab.label)
                    ELSE lab.label)

\* C21: no step of a backfill run with a non-empty label, from its start to
\* its end in success or failure, changes the primary pointer table: the
\* table exists or not as before, with the rows it had.
C21_PrimaryPointerFrame ==
    [][lab'.label # <<>> => PrimaryTable' = PrimaryTable]_vars

\* A backfill with a non-empty label ended in success with rows in its own
\* pointer table, after a run of the asset had left rows in the primary one.
C21_Witness ==
    /\ lab.label # <<>>
    /\ phase = "idle"
    /\ outcome = "success"
    /\ pointer # EmptyBag
    /\ lab.tables[PrimaryName].rows # EmptyBag

\* C22: bq_retry calls the load at most `retries` times; every call before
\* the last met a transient server error; it returns the result of the
\* first call that succeeds; any other error is raised on the call where
\* it occurs; and when every call met a transient server error bq_retry
\* raises.
C22_BqRetry ==
    lab.called =>
        /\ lab.calls >= 1 /\ lab.calls <= BqRetries
        /\ \A i \in 1..(lab.calls - 1) : lab.outs[i] = "server"
        /\ lab.res = "ok" <=> lab.outs[lab.calls] = "ok"
        /\ lab.outs[lab.calls] \in {"client", "other"} => lab.res = "raise"
        /\ (\A i \in 1..BqRetries : lab.outs[i] = "server") => lab.res = "raise"

\* C23: within one window of 600 seconds the load is started again at most
\* 3 times after a failure, the attempt that opens a window not counted;
\* the error is raised only by a failure inside the window with those 3
\* retries spent.
C23_ClusterRetryBound ==
    /\ lab.window <= ClusterRetries
    /\ lab.pc = "raised" =>
         /\ lab.window = ClusterRetries
         /\ lab.now <= lab.last_restart + RestartWindow

\* C24: a < b is the lexicographic order on (timestamp, job_id,
\* worker_checkpoint); exactly one of a < b, a == b, a > b holds; < is
\* transitive; a <= b iff a < b or a == b; a >= b iff not a < b; and
\* a == b iff the three fields are equal.
C24_CheckpointOrder ==
    lab.done =>
        /\ lab.lt <=>
             \/ lab.a.timestamp < lab.b.timestamp
             \/ /\ lab.a.timestamp = lab.b.timestamp
                /\ lab.a.job_id < lab.b.job_id
             \/ /\ lab.a.timestamp = lab.b.timestamp
                /\ lab.a.job_id = lab.b.job_id
                /\ lab.a.worker_checkpoint < lab.b.worker_checkpoint
        /\ Cardinality({x \in {"lt", "eq", "gt"} : lab[x]}) = 1
        /\ (lab.lt /\ lab.lt_bc) => lab.lt_ac
        /\ lab.le <=> (lab.lt \/ lab.eq)
        /\ lab.ge <=> ~lab.lt
        /\ lab.eq <=> lab.a = lab.b

\* Two checkpoints were compared whose timestamps and job_ids are in
\* opposite orders.
C24_Witness ==
    /\ lab.done
    /\ lab.lt
    /\ lab.a.timestamp < lab.b.timestamp
    /\ lab.a.job_id > lab.b.job_id

\* C25: in_range(c) is true exactly when c >= start and the range has no
\* end or c < end, start being GoldskyCheckpoint("0", 0, 0) when the range
\* was built without one; a range built with neither start nor end admits
\* every checkpoint whose job_id has the form discovery asks for.
C25_InRange ==
    lab.done =>
        /\ lab.in_range <=>
             /\ CkGe(lab.c, IF lab.with_start THEN lab.a
                            ELSE GoldskyCheckpoint(JobZero, 0, 0))
             /\ ~lab.with_end \/ CkLt(lab.c, lab.b)
        /\ (~lab.with_start /\ ~lab.with_end /\ lab.c.job_id > JobZero)
               => lab.in_range

\* A checkpoint equal to the end of a range it is not below the start of
\* was tested, and one with timestamp 0 against a range with no bound.
C25_Witness ==
    /\ lab.done
    /\ \/ /\ lab.with_start /\ lab.with_end
          /\ lab.c = lab.b
          /\ CkLt(lab.a, lab.b)
          /\ ~lab.in_range
       \/ /\ ~lab.with_start /\ ~lab.with_end
          /\ lab.c.job_id > JobZero
          /\ lab.c.timestamp = 0
          /\ lab.in_range

C27_SchemaMapping ==
    lab.done =>
        LET RECURSIVE InTable(_)
            InTable(t) ==
                \/ t.kind \in {"Boolean", "Int32", "Int64", "Float32",
                               "Float64", "Date", "Datetime", "String",
                               "Decimal"}
                \/ t.kind = "List" /\ InTable(t.inner)
            RECURSIVE Mapped(_, _)
            Mapped(name, t) ==
                IF t.kind = "List"
                THEN [Mapped(name, t.inner) EXCEPT !.mode = "REPEATED"]
                ELSE IF t.kind = "Decimal"
                THEN IF t.precision = 100 /\ t.scale = 0
                     THEN SchemaField(name, "NUMERIC", "NULLABLE", <<>>)
                     ELSE SchemaField(name, "DECIMAL", "NULLABLE",
                                      <<t.precision, t.scale>>)
                ELSE SchemaField(
                       name,
                       CASE t.kind = "Boolean" -> "BOOLEAN"
                         [] t.kind \in {"Int32", "Int64"} -> "INT64"
                         [] t.kind \in {"Float32", "Float64"} -> "FLOAT64"
                         [] t.kind = "Date" -> "DATE"
                         [] t.kind = "Datetime" -> "TIMESTAMP"
                         [] t.kind = "String" -> "STRING",
                       "NULLABLE", <<>>)
            sch == lab.parquet_schema
            ovr == lab.schema_overrides
            Overridden(i) == \E k \in DOMAIN ovr : ovr[k].name = sch[i].name
        IN IF \E i \in DOMAIN sch : ~Overridden(i) /\ ~InTable(sch[i].type)
           THEN lab.raise
           ELSE /\ ~lab.raise
                /\ Len(lab.schema) = Len(sch)
                /\ \A i \in DOMAIN sch :
                      IF Overridden(i)
                      THEN \E k \in DOMAIN ovr : /\ ovr[k].name = sch[i].name
                                                 /\ lab.schema[i] = ovr[k]
                      ELSE lab.schema[i] = Mapped(sch[i].name, sch[i].type)

\* C28: in the Direct loader with pointer_size k, every bulk-load a worker
\* submits holds the blobs dequeued since the load before it: k of them,
\* or fewer when the queue gave nothing more; the checkpoint committed
\* after it is the greatest of the load's blobs; a worker that has drained
\* n blobs has made ceil(n/k) loads and as many pointer commits; and in a
\* first run with no failure each of the n blobs was loaded exactly once.
C28_DirectBatches ==
    \A w \in Workers :
        LET st == wk[w]
            k == cfg.pointer_size
            n == Cardinality(st.seen)
            batch == Range(st.to_load)
        IN /\ st.pc \in {"load", "ptr"} =>
                /\ Len(st.to_load) >= 1 /\ Len(st.to_load) <= k
                /\ Len(st.to_load) < k => st.item = None
                /\ batch \subseteq st.seen
                /\ (n - Len(st.to_load)) % k = 0
                /\ st.loads = (n - Len(st.to_load)) \div k
                                 + (IF st.pc = "ptr" THEN 1 ELSE 0)
                /\ st.commits = (n - Len(st.to_load)) \div k
                /\ \E b \in batch : CkEq(ItemCheckpoint(b), st.commit_ck)
                /\ \A b \in batch : CkLe(ItemCheckpoint(b), st.commit_ck)
           /\ st.pc = "done" =>
                /\ st.to_load = <<>>
                /\ st.loads = (n + k - 1) \div k
                /\ st.commits = (n + k - 1) \div k
                /\ (runs = 1 /\ faults = 0) =>
                      \A b \in st.seen : b \in BagToSet(loaded) /\ loaded[b] = 1

\* Worker 0 drained 3 blobs with pointer_size 2 in two loads and two
\* commits, and its pointer row is the checkpoint of the third blob.
C28_Witness ==
    /\ cfg.pointer_size = 2
    /\ wk[0].pc = "done"
    /\ Cardinality(wk[0].seen) = 3
    /\ wk[0].loads = 2
    /\ wk[0].commits = 2
    /\ faults = 0
    /\ \E r \in RowsOf(pointer, 0) :
          /\ pointer[r] = 1
          /\ \A b \in wk[0].seen : CkLe(ItemCheckpoint(b), RowCheckpoint(r))

\* C29: in every pointer table, at every step of every run, a worker's row
\* is left alone or replaced by a row whose checkpoint is greater than or
\* equal to it: no row goes away and no stored checkpoint decreases.
C29_PointerMonotone ==
    [][\A name \in PointerNames : \A w \in Workers :
          \A r \in RowsOf(PointerTableRows(name), w) :
             \E r2 \in RowsOf(PointerTableRows(name)', w) :
                CkGe(RowCheckpoint(r2), RowCheckpoint(r))]_vars

\* In a second run worker 0 has committed a checkpoint above that of a
\* blob a run before had loaded and committed for it.
C29_Witness ==
    /\ runs = 2
    /\ wk[0].commits >= 1
    /\ wk[0].ptrres = "ok"
    /\ faults = 0
    /\ \E b \in BagToSet(loaded) :
          /\ b.worker = 0
          /\ b \notin wk[0].seen
          /\ \A r \in RowsOf(pointer, 0) :
                CkGt(RowCheckpoint(r), ItemCheckpoint(b))

\* C30: in the Parallel loader a step changes the pointer rows of a worker
\* only from inside the commit of a batch whose every task has completed,
\* nothing having raised in the worker, and it writes the checkpoint of
\* that batch.
C30_CommitAfterTasks ==
    [][\A w \in Workers :
          (/\ cfg.dask_is_enabled
           /\ \E r \in BagToSet(pointer) \cup BagToSet(pointer') :
                 r.worker = w /\ CopiesIn(r, pointer') # CopiesIn(r, pointer))
          => /\ InCommit(w)
             /\ ~wk[w].err
             /\ \A b \in Range(wk[w].to_load) :
                   \E f \in staged[w] : f.checkpoint = b.checkpoint
             /\ \E r \in RowsOf(pointer', w) :
                   CkEq(RowCheckpoint(r), wk[w].commit_ck)]_vars

\* With pointer_size 2 a worker of the Parallel loader has awaited two
\* tasks and committed their batch.
C30_Witness ==
    /\ cfg.dask_is_enabled
    /\ cfg.pointer_size = 2
    /\ faults = 0
    /\ \E w \in Workers :
          /\ Cardinality(wk[w].seen) >= 2
          /\ wk[w].last_commit # None
          /\ \E r \in RowsOf(pointer, w) :
                CkEq(RowCheckpoint(r), wk[w].last_commit)
          /\ \A b \in wk[w].seen : \E f \in staged[w] : f.checkpoint = b.checkpoint

\* C31: when the process() of a Parallel-loader worker ends, by success or
\* by error, and its clean-up did not itself fail, no file the worker
\* staged under its prefix remains.
C31_StagingCleaned ==
    [][\A w \in Workers :
          (/\ cfg.dask_is_enabled
           /\ wk[w].pc = "finally"
           /\ wk'[w].pc \in {"done", "error"}
           /\ faults' = faults) => staged'[w] = {}]_vars

\* C32: in every state reached by any sequence of runs, with load
\* failures, pointer-commit failures and kills allowed, every listed blob
\* of worker w whose checkpoint is <= the checkpoint of a pointer row of w
\* has been bulk-loaded into raw_{w}.
C32_NoLossBelowPointer ==
    \A w \in Workers :
        \A r \in RowsOf(pointer, w) :
            \A b \in listing :
                (b.worker = w /\ CkLe(ItemCheckpoint(b), RowCheckpoint(r)))
                    => b \in BagToSet(loaded)

\* C33: rows a failed run left in raw_{w} are not stranded: once a later
\* run has completed successfully, no raw table is left and every blob
\* bulk-loaded so far is in the destination, whether or not that run found
\* new blobs for worker w.
C33_RawNotStranded ==
    (phase = "idle" /\ outcome = "success") =>
        /\ \A w \in Workers : ~raw[w].exists
        /\ BagToSet(loaded) \subseteq dest

\* C34: in the Parallel loader a pointer advance adds to raw_{worker} the
\* rows of exactly the files staged for the batch being committed, so a
\* file staged for an earlier batch of the run is not loaded again.
C34_BatchLoadedOnce ==
    [][\A w \in Workers :
          (/\ cfg.dask_is_enabled
           /\ wk[w].pc \in {"commit", "tx"}
           /\ raw'[w] # raw[w])
          => raw'[w].rows = raw[w].rows (+)
                SetToBag({f \in staged[w] :
                            \E b \in Range(wk[w].to_load) :
                               b.checkpoint = f.checkpoint})]_vars

\* C35: with no load and no commit failing, a Direct-loader worker ends
\* without error after at most min(queue length, max_size) dequeued items,
\* and a worker whose first dequeue returned nothing has made no bulk-load
\* and no pointer commit.
C35_DirectWorkerTerminates ==
    (~cfg.dask_is_enabled /\ faults = 0) =>
        \A w \in Workers :
            /\ wk[w].pc # "error"
            /\ Cardinality(wk[w].seen) <= wk[w].q.max_size
            /\ wk[w].seen = {} => wk[w].loads = 0 /\ wk[w].commits = 0

=============================================================================
